---- MODULE Spec2Model ----
(***************************************************************************)
(* Model of sysinfo.py: the four text parsers CPU.info, RAM.info,          *)
(* System.lspci and X.infos, each run by a caller on one collector object. *)
(*                                                                         *)
(* A Python string is a sequence of one-character strings, so that split,  *)
(* replace, count, lower, lstrip, int() and the regular expressions are    *)
(* computed character by character, as the interpreter computes them.      *)
(* A dict is a function whose domain is its key set.                       *)
(***************************************************************************)
EXTENDS Integers, Sequences, FiniteSets, TLC

VARIABLES
    obj,          \* the collector object the caller constructed
    pc,           \* position of the running method, "idle" between calls
    results,      \* what each finished call returned or raised, in call order
    cpufile,      \* CPU.cpufile: the text read by CPU.__init__
    cpus,         \* CPU.info local: self.count()
    infs,         \* CPU.info local: the remaining pool of split lines
    inf_list,     \* CPU.info local: the records built so far
    i,            \* CPU.info: index of the record being filled
    it,           \* CPU.info: position of the list iterator of "for inf in infs"
    infs0,        \* history: the pool as parsed at the start of the call
    fill0,        \* history: the pool at the start of the current fill
    placed,       \* history: number of placements made in this call
    meminfo_raw,  \* RAM.meminfo_raw: the open file, its data and read offset
    meminfos,     \* RAM.info local
    cmd_out,      \* standard output of the external command (lspci or xdpyinfo)
    lines,        \* lspci_val / xdpy_val: the output split at newlines
    n,            \* number of lines the for loop has consumed
    device_list,  \* System.lspci local
    xinfos,       \* X.infos local
    curr_scr      \* X.infos local

vars == <<obj, pc, results, cpufile, cpus, infs, inf_list, i, it, infs0, fill0,
          placed, meminfo_raw, meminfos, cmd_out, lines, n, device_list,
          xinfos, curr_scr>>

cpuVars == <<cpus, infs, inf_list, i, it, infs0, fill0, placed>>
ramVars == <<meminfos>>
lineVars == <<lines, n, device_list, xinfos, curr_scr>>
srcVars == <<obj, cpufile, cmd_out>>

----------------------------------------------------------------------------
(* Bounds of the model *)

MaxCalls == 2      \* calls the caller makes on its object
MaxCpuLines == 5   \* newline-separated pieces of /proc/cpuinfo
MaxRamLines == 3   \* lines of /proc/meminfo
MaxPciLines == 3   \* newline-separated pieces of the lspci output
MaxXLines == 3     \* newline-separated pieces of the xdpyinfo output

----------------------------------------------------------------------------
(* Python built-ins on strings, lists and dicts *)

Whitespace == {" ", "\t", "\n", "\r", "\f"}

UpperChars == <<"A","B","C","D","E","F","G","H","I","J","K","L","M",
                "N","O","P","Q","R","S","T","U","V","W","X","Y","Z">>

LowerChars == <<"a","b","c","d","e","f","g","h","i","j","k","l","m",
                "n","o","p","q","r","s","t","u","v","w","x","y","z">>

DigitChars == <<"0","1","2","3","4","5","6","7","8","9">>

Range(s) == {s[k] : k \in 1..Len(s)}

Min(S) == CHOOSE x \in S : \A y \in S : x <= y

Max(S) == CHOOSE x \in S : \A y \in S : x >= y

\* s[p:] in Python terms, p counted from 1
From(s, p) == SubSeq(s, p, Len(s))

StartsAt(s, sub, p) ==
    /\ p + Len(sub) - 1 <= Len(s)
    /\ \A k \in 1..Len(sub) : s[p + k - 1] = sub[k]

RECURSIVE Find(_, _, _)
\* position of the first occurrence of sub in s at or after p, 0 if none
Find(s, sub, p) ==
    IF p + Len(sub) - 1 > Len(s) THEN 0
    ELSE IF StartsAt(s, sub, p) THEN p
    ELSE Find(s, sub, p + 1)

RECURSIVE str_split(_, _)
\* s.split(sep)
str_split(s, sep) ==
    LET p == Find(s, sep, 1)
    IN  IF p = 0 THEN <<s>>
        ELSE <<SubSeq(s, 1, p - 1)>> \o str_split(From(s, p + Len(sep)), sep)

RECURSIVE str_replace(_, _, _)
\* s.replace(old, new)
str_replace(s, old, new) ==
    LET p == Find(s, old, 1)
    IN  IF p = 0 THEN s
        ELSE SubSeq(s, 1, p - 1) \o new
                 \o str_replace(From(s, p + Len(old)), old, new)

RECURSIVE str_count(_, _)
\* s.count(sub): non-overlapping occurrences
str_count(s, sub) ==
    LET p == Find(s, sub, 1)
    IN  IF p = 0 THEN 0 ELSE 1 + str_count(From(s, p + Len(sub)), sub)

lowerChar(c) ==
    IF \E k \in 1..26 : UpperChars[k] = c
    THEN LowerChars[CHOOSE k \in 1..26 : UpperChars[k] = c]
    ELSE c

\* s.lower()
lower(s) == [k \in 1..Len(s) |-> lowerChar(s[k])]

RECURSIVE lstrip(_)
\* s.lstrip()
lstrip(s) ==
    IF s # <<>> /\ Head(s) \in Whitespace THEN lstrip(Tail(s)) ELSE s

RECURSIVE rstrip(_)
rstrip(s) ==
    IF s # <<>> /\ s[Len(s)] \in Whitespace
    THEN rstrip(SubSeq(s, 1, Len(s) - 1)) ELSE s

IsDigit(c) == c \in Range(DigitChars)

DigitVal(c) == (CHOOSE k \in 1..10 : DigitChars[k] = c) - 1

RECURSIVE DigitsVal(_)
DigitsVal(ds) ==
    IF ds = <<>> THEN 0
    ELSE 10 * DigitsVal(SubSeq(ds, 1, Len(ds) - 1)) + DigitVal(ds[Len(ds)])

\* the digits of the literal int() reads: surrounding whitespace and one
\* leading sign dropped
IntDigits(s) ==
    LET t == rstrip(lstrip(s))
    IN  IF t # <<>> /\ t[1] \in {"+", "-"} THEN Tail(t) ELSE t

\* int(s) returns: s is an integer literal (otherwise int raises ValueError)
int_ok(s) ==
    /\ IntDigits(s) # <<>>
    /\ \A k \in 1..Len(IntDigits(s)) : IsDigit(IntDigits(s)[k])

\* int(s), for int_ok(s)
int_value(s) ==
    LET t == lstrip(s)
    IN  IF t[1] = "-" THEN 0 - DigitsVal(IntDigits(s)) ELSE DigitsVal(IntDigits(s))

\* {}
EmptyDict == [k \in {} |-> 0]

\* d[k] = v
Put(d, k, v) == [x \in DOMAIN d \cup {k} |-> IF x = k THEN v ELSE d[x]]

\* l.pop(0): drops the head of the list, whatever it is
remove_head(l, x) == Tail(l)

\* l.remove(x): drops the first element equal to x
remove(l, x) ==
    LET p == Min({k \in 1..Len(l) : l[k] = x})
    IN  SubSeq(l, 1, p - 1) \o SubSeq(l, p + 1, Len(l))

\* "\n".join(ls)
RECURSIVE Join(_)
Join(ls) ==
    IF Len(ls) = 1 THEN ls[1] ELSE ls[1] \o <<"\n">> \o Join(Tail(ls))

\* the sequences over S with between lo and hi elements
SeqsOf(S, lo, hi) == UNION {[1..k -> S] : k \in lo..hi}

\* a finished call that returned v, and one that raised e
Returned(v) == [ret |-> v]

Raised(e) == [exc |-> e]

----------------------------------------------------------------------------
(* CPU: /proc/cpuinfo *)

\* CPU.CPU_STR
CPU_STR == <<"p","r","o","c","e","s","s","o","r","\t",":">>

\* CPU.count()
CPU_count(text) == str_count(text, CPU_STR)

\* l[:-2]
DropLast2(l) == SubSeq(l, 1, Len(l) - 2)

\* [x.split(': ') for x in text.replace('\t', '').split('\n')][:-2]
CPU_parse(text) ==
    LET ls == str_split(str_replace(text, <<"\t">>, <<>>), <<"\n">>)
    IN  DropLast2([k \in 1..Len(ls) |-> str_split(ls[k], <<":", " ">>)])

\* inf[0].lower().lstrip()
CPU_key(inf) == lstrip(lower(inf[1]))

\* lines of /proc/cpuinfo the caller's machine may produce
CpuLines == {
    <<"p","r","o","c","e","s","s","o","r","\t",":"," ","0">>,
    <<"c","p","u"," ","M","H","z","\t","\t",":"," ","9">>,
    <<>>,
    <<"p","o","w","e","r"," ","m","a","n","a","g","e","m","e","n","t",":">> }

CpuTexts == {Join(ls) : ls \in SeqsOf(CpuLines, 1, MaxCpuLines)}

\* xrange(stop - 1): the loop stops one record short
xrange_more_short(k, stop) == k < stop - 1

\* for i in xrange(stop): the loop has a round for index k
xrange_more(k, stop) == k < stop

\* cpus = self.count(); infs = ...; inf_list = []
CPU_info ==
    /\ obj = "CPU" /\ pc = "idle" /\ Len(results) < MaxCalls
    /\ cpus' = CPU_count(cpufile)
    /\ infs' = CPU_parse(cpufile)
    /\ infs0' = CPU_parse(cpufile)
    /\ fill0' = CPU_parse(cpufile)
    /\ inf_list' = <<>>
    /\ i' = 0
    /\ it' = 0
    /\ placed' = 0
    /\ pc' = "cpu_for_i"
    /\ UNCHANGED <<srcVars, results, meminfo_raw, ramVars, lineVars>>

\* for i in xrange(cpus): inf_list.append({}); after the loop, return inf_list
CPU_for_i ==
    /\ pc = "cpu_for_i"
    /\ IF xrange_more(i, cpus)
       THEN /\ inf_list' = Append(inf_list, EmptyDict)
            /\ it' = 0
            /\ fill0' = infs
            /\ pc' = "cpu_for_inf"
            /\ UNCHANGED results
       ELSE /\ results' = Append(results, Returned(inf_list))
            /\ pc' = "idle"
            /\ UNCHANGED <<inf_list, it, fill0>>
    /\ UNCHANGED <<srcVars, cpus, infs, i, infs0, placed, meminfo_raw, ramVars,
                   lineVars>>

\* one round of "for inf in infs": the list iterator yields infs[it], if any
CPU_for_inf ==
    /\ pc = "cpu_for_inf"
    /\ IF it >= Len(infs)
       THEN \* the iterator is exhausted: next i
            /\ i' = i + 1
            /\ pc' = "cpu_for_i"
            /\ UNCHANGED <<results, infs, inf_list, it, placed>>
       ELSE LET inf == infs[it + 1]
            IN  IF inf[1] = <<>>
                THEN \* break
                     /\ i' = i + 1
                     /\ pc' = "cpu_for_i"
                     /\ UNCHANGED <<results, infs, inf_list, it, placed>>
                ELSE IF Len(inf) < 2
                THEN \* inf[1] raises IndexError
                     /\ results' = Append(results, Raised("IndexError"))
                     /\ pc' = "idle"
                     /\ UNCHANGED <<infs, inf_list, i, it, placed>>
                ELSE /\ inf_list' = [inf_list EXCEPT
                                        ![i + 1] = Put(@, CPU_key(inf), inf[2])]
                     /\ infs' = remove(infs, inf)
                     /\ it' = it + 1
                     /\ placed' = placed + 1
                     /\ UNCHANGED <<results, i, pc>>
    /\ UNCHANGED <<srcVars, cpus, infs0, fill0, meminfo_raw, ramVars, lineVars>>

----------------------------------------------------------------------------
(* RAM: /proc/meminfo *)

\* the file object's unread data
Unread(f) == From(f.data, f.pos + 1)

\* the line the file iterator yields next, its newline included
NextLine(f) ==
    LET p == Find(Unread(f), <<"\n">>, 1)
    IN  IF p = 0 THEN Unread(f) ELSE SubSeq(Unread(f), 1, p)

\* x[1].lstrip(): the unit is left on the value
RAM_value_keep_unit(x) == lstrip(x[2])

\* x[1].lstrip().replace(' kB', '')
RAM_value(x) == str_replace(lstrip(x[2]), <<" ", "k", "B">>, <<>>)

\* x[0].lower()
RAM_key(x) == lower(x[1])

\* lines of /proc/meminfo the caller's machine may produce
RamLines == {
    <<"M","t",":"," "," ","1","2"," ","k","B","\n">>,
    <<"b",":","-","3","\n">>,
    <<"b",":"," ","1"," ","k","B","2",":","z","\n">>,
    <<"c",":"," ","x","\n">>,
    <<"d","\n">>,
    <<"e",":"," ","7">> }

RECURSIVE Concat(_)
Concat(ls) == IF ls = <<>> THEN <<>> ELSE ls[1] \o Concat(Tail(ls))

RamTexts == {Concat(ls) : ls \in SeqsOf(RamLines, 0, MaxRamLines)}

\* meminfos = {}
RAM_info ==
    /\ obj = "RAM" /\ pc = "idle" /\ Len(results) < MaxCalls
    /\ meminfos' = EmptyDict
    /\ pc' = "ram_for_y"
    /\ UNCHANGED <<srcVars, results, cpuVars, meminfo_raw, lineVars>>

\* one round of "for y in self.meminfo_raw"; at end of file, return meminfos
RAM_for_y ==
    /\ pc = "ram_for_y"
    /\ IF Unread(meminfo_raw) = <<>>
       THEN /\ results' = Append(results, Returned(meminfos))
            /\ pc' = "idle"
            /\ UNCHANGED <<meminfo_raw, meminfos>>
       ELSE LET y == NextLine(meminfo_raw)
                x == str_split(y, <<":">>)
            IN  /\ meminfo_raw' = [meminfo_raw EXCEPT !.pos = @ + Len(y)]
                /\ IF Len(x) < 2
                   THEN /\ results' = Append(results, Raised("IndexError"))
                        /\ pc' = "idle"
                        /\ UNCHANGED meminfos
                   ELSE IF ~int_ok(RAM_value(x))
                   THEN /\ results' = Append(results, Raised("ValueError"))
                        /\ pc' = "idle"
                        /\ UNCHANGED meminfos
                   ELSE /\ meminfos' = Put(meminfos, RAM_key(x),
                                           int_value(RAM_value(x)))
                        /\ UNCHANGED <<results, pc>>
    /\ UNCHANGED <<srcVars, cpuVars, lineVars>>

----------------------------------------------------------------------------
(* System.lspci.  The pattern of re.match has four groups: a shortest     *)
(* run of one or more characters (id), a space, a longest run of one or    *)
(* more characters (type), a colon and a space, a longest run of one or    *)
(* more characters (name), a space, and in parentheses a longest run of    *)
(* zero or more characters (rev).                                          *)

\* With id = s[1..a], type = s[a+2..j], name = s[j+3..k] and rev = s[k+3..m],
\* the positions at which each group may end so that the rest still matches.
RevEnds(s, k) == {m \in (k + 2)..(Len(s) - 1) : s[m + 1] = ")"}

NameEnds(s, j) ==
    {k \in (j + 3)..(Len(s) - 2) :
        StartsAt(s, <<" ", "(">>, k + 1) /\ RevEnds(s, k) # {}}

TypeEnds(s, a) ==
    {j \in (a + 2)..(Len(s) - 2) :
        StartsAt(s, <<":", " ">>, j + 1) /\ NameEnds(s, j) # {}}

IdEnds(s) ==
    {a \in 1..(Len(s) - 1) : s[a + 1] = " " /\ TypeEnds(s, a) # {}}

\* m.groups() with a greedy id group: the longest id that still matches
lspci_match_greedy(s) ==
    IF IdEnds(s) = {} THEN <<>>
    ELSE LET a == Max(IdEnds(s))
             j == Max(TypeEnds(s, a))
             k == Max(NameEnds(s, j))
             m == Max(RevEnds(s, k))
         IN  <<SubSeq(s, 1, a), SubSeq(s, a + 2, j), SubSeq(s, j + 3, k),
               SubSeq(s, k + 3, m)>>

\* m.groups(), or <<>> when the line does not match: the id group takes the
\* shortest run, then type, name and rev each the longest that still matches
lspci_match(s) ==
    IF IdEnds(s) = {} THEN <<>>
    ELSE LET a == Min(IdEnds(s))
             j == Max(TypeEnds(s, a))
             k == Max(NameEnds(s, j))
             m == Max(RevEnds(s, k))
         IN  <<SubSeq(s, 1, a), SubSeq(s, a + 2, j), SubSeq(s, j + 3, k),
               SubSeq(s, k + 3, m)>>

\* {'id': mgrp[0], 'type': mgrp[1], 'name': mgrp[2], 'rev': mgrp[3]}
Device(mgrp) ==
    [id |-> mgrp[1], type |-> mgrp[2], name |-> mgrp[3], rev |-> mgrp[4]]

\* the line "<id> <type>: <name> (rev <r>)" lspci prints for a device
PciLine(id, type, name, r) ==
    id \o <<" ">> \o type \o <<":", " ">> \o name
       \o <<" ", "(", "r", "e", "v", " ">> \o r \o <<")">>

\* the devices of the caller's machine: id, type, name and revision
PciParts == {
    <<<<"0">>, <<"V", " ", "c">>, <<"N">>, <<"4">>>>,
    <<<<"1">>, <<"V", " ", "c">>, <<"N">>, <<"4">>>>,
    <<<<"0">>, <<"V", " ", "c">>, <<"N", ":", " ", "d">>, <<"4">>>>,
    <<<<"1">>, <<"V", " ", "c">>, <<"N">>, <<"4", " ", "(", "x">>>> }

LineOf(q) == PciLine(q[1], q[2], q[3], q[4])

\* lines of lspci output: device lines, a blank line, a continuation line
PciLines ==
    {LineOf(q) : q \in PciParts} \cup {<<>>, <<"\t", "S", ":", " ", "x">>}

PciTexts == {Join(ls) : ls \in SeqsOf(PciLines, 1, MaxPciLines)}

\* lspci_val = lspci.communicate()[0].split('\n'); device_list = []
System_lspci ==
    /\ obj = "System" /\ pc = "idle" /\ Len(results) < MaxCalls
    /\ lines' = str_split(cmd_out, <<"\n">>)
    /\ n' = 0
    /\ device_list' = <<>>
    /\ pc' = "lspci_for"
    /\ UNCHANGED <<srcVars, results, cpuVars, meminfo_raw, ramVars, xinfos,
                   curr_scr>>

\* one round of "for device in lspci_val"; after the loop, return device_list
lspci_for_device ==
    /\ pc = "lspci_for"
    /\ IF n >= Len(lines)
       THEN /\ results' = Append(results, Returned(device_list))
            /\ pc' = "idle"
            /\ UNCHANGED <<n, device_list>>
       ELSE /\ n' = n + 1
            /\ device_list' =
                  IF lspci_match(lines[n + 1]) # <<>>
                  THEN Append(device_list, Device(lspci_match(lines[n + 1])))
                  ELSE device_list
            /\ UNCHANGED <<results, pc>>
    /\ UNCHANGED <<srcVars, cpuVars, meminfo_raw, ramVars, lines, xinfos,
                   curr_scr>>

----------------------------------------------------------------------------
(* X.infos *)

\* the values X.infos stores: an int, a str, or the list under 'screens'
IntV(v) == [int |-> v]

StrV(s) == [str |-> s]

ListV(l) == [list |-> l]

\* try: int(s)  except ValueError: s
coerce(s) == IF int_ok(s) THEN IntV(int_value(s)) ELSE StrV(s)

SCREENS == <<"s", "c", "r", "e", "e", "n", "s">>

IsWord(c) == c \in Range(UpperChars) \cup Range(LowerChars)
                   \cup Range(DigitChars) \cup {"_"}

\* the end of the longest whitespace run that starts at p and stops at or
\* before last
RECURSIVE SpaceEnd(_, _, _)
SpaceEnd(s, p, last) ==
    IF p < last /\ s[p + 1] \in Whitespace THEN SpaceEnd(s, p + 1, last) ELSE p

\* m.groups() of the top-level pattern, or <<>>: a non-blank character and
\* one or more characters (key), a colon, one or more blanks, and one or
\* more characters (value), each run the longest that still matches
generic_match(s) ==
    LET ends == {a \in 2..(Len(s) - 3) :
                    s[a + 1] = ":" /\ s[a + 2] \in Whitespace}
    IN  IF s = <<>> \/ s[1] \in Whitespace \/ ends = {} THEN <<>>
        ELSE LET a == Max(ends)
                 b == SpaceEnd(s, a + 2, Len(s) - 1)
             IN  <<SubSeq(s, 1, a), From(s, b + 1)>>

\* the end of the longest digit run that starts at p
RECURSIVE DigitEnd(_, _)
DigitEnd(s, p) ==
    IF p < Len(s) /\ IsDigit(s[p + 1]) THEN DigitEnd(s, p + 1) ELSE p

\* scr.groups() of the pattern 'screen #' followed by digits, or <<>>
screen_match(s) ==
    IF StartsAt(s, <<"s","c","r","e","e","n"," ","#">>, 1)
       /\ Len(s) >= 9 /\ IsDigit(s[9])
    THEN <<SubSeq(s, 9, DigitEnd(s, 9))>>
    ELSE <<>>

\* scrdetails.groups(), or <<>>: two blanks, a word character and any
\* characters (key), a colon, one or more blanks, any characters (value)
scrdetails_match(s) ==
    LET ends == {a \in 3..(Len(s) - 2) :
                    s[a + 1] = ":" /\ s[a + 2] \in Whitespace}
    IN  IF Len(s) < 5 \/ s[1] \notin Whitespace \/ s[2] \notin Whitespace
           \/ ~IsWord(s[3]) \/ ends = {}
        THEN <<>>
        ELSE LET a == Max(ends)
                 b == SpaceEnd(s, a + 2, Len(s))
             IN  <<SubSeq(s, 3, a), From(s, b + 1)>>

\* if scr: xinfos['screens'] = []
screen_reset(xi) == Put(xi, SCREENS, ListV(<<>>))

\* try: l[cs]  except IndexError: l.append({})
screen_pad(l, cs) == IF cs >= Len(l) THEN Append(l, EmptyDict) ELSE l

\* the body of "for x in xdpy_val" on line x: the locals after it, and the
\* exception it raises, if any
X_body(xi, cs, x) ==
    LET m == generic_match(x)
        x1 == IF m # <<>> THEN Put(xi, m[1], coerce(m[2])) ELSE xi
        scr == screen_match(x)
        x2 == IF scr # <<>> THEN screen_reset(x1) ELSE x1
        cs2 == IF scr # <<>> THEN int_value(scr[1]) ELSE cs
        grp == scrdetails_match(x)
    IN  IF grp = <<>>
        THEN [xinfos |-> x2, curr_scr |-> cs2, exc |-> "none"]
        ELSE IF SCREENS \notin DOMAIN x2
        THEN [xinfos |-> x2, curr_scr |-> cs2, exc |-> "KeyError"]
        ELSE IF "list" \notin DOMAIN x2[SCREENS]
        THEN [xinfos |-> x2, curr_scr |-> cs2, exc |-> "TypeError"]
        ELSE LET l == screen_pad(x2[SCREENS].list, cs2)
             IN  IF cs2 >= Len(l)
                 THEN [xinfos |-> Put(x2, SCREENS, ListV(l)),
                       curr_scr |-> cs2, exc |-> "IndexError"]
                 ELSE [xinfos |->
                          Put(x2, SCREENS,
                              ListV([l EXCEPT ![cs2 + 1] =
                                        Put(@, grp[1], coerce(grp[2]))])),
                       curr_scr |-> cs2, exc |-> "none"]

\* lines of xdpyinfo output
XLines == {
    <<"v","e","r",":"," "," ","1","1">>,
    <<"s","c","r","e","e","n"," ","#","0",":">>,
    <<"s","c","r","e","e","n"," ","#","1",":">>,
    <<"s","c","r","e","e","n"," ","#","2",":">>,
    <<" "," ","w",":"," "," ","5">>,
    <<" "," ","d",":"," "," ","1","x">>,
    <<>> }

XTexts == {Join(ls) : ls \in SeqsOf(XLines, 1, MaxXLines)}

\* X.infos starting from xinfos = {'screens': []}
X_infos_preset ==
    /\ obj = "X" /\ pc = "idle" /\ Len(results) < MaxCalls
    /\ lines' = str_split(cmd_out, <<"\n">>)
    /\ n' = 0
    /\ xinfos' = screen_reset(EmptyDict)
    /\ curr_scr' = 0
    /\ pc' = "infos_for"
    /\ UNCHANGED <<srcVars, results, cpuVars, meminfo_raw, ramVars,
                   device_list>>

\* xdpy_val = xdpy.communicate()[0].split('\n'); xinfos = {}; curr_scr = 0
X_infos ==
    /\ obj = "X" /\ pc = "idle" /\ Len(results) < MaxCalls
    /\ lines' = str_split(cmd_out, <<"\n">>)
    /\ n' = 0
    /\ xinfos' = EmptyDict
    /\ curr_scr' = 0
    /\ pc' = "infos_for"
    /\ UNCHANGED <<srcVars, results, cpuVars, meminfo_raw, ramVars,
                   device_list>>

\* one round of "for x in xdpy_val"; after the loop, return xinfos
infos_for_x ==
    /\ pc = "infos_for"
    /\ IF n >= Len(lines)
       THEN /\ results' = Append(results, Returned(xinfos))
            /\ pc' = "idle"
            /\ UNCHANGED <<n, xinfos, curr_scr>>
       ELSE LET r == X_body(xinfos, curr_scr, lines[n + 1])
            IN  /\ n' = n + 1
                /\ xinfos' = r.xinfos
                /\ curr_scr' = r.curr_scr
                /\ IF r.exc = "none"
                   THEN UNCHANGED <<results, pc>>
                   ELSE /\ results' = Append(results, Raised(r.exc))
                        /\ pc' = "idle"
    /\ UNCHANGED <<srcVars, cpuVars, meminfo_raw, ramVars, lines, device_list>>

----------------------------------------------------------------------------
(* The caller: constructs one collector over one source and calls it *)

NoFile == [data |-> <<>>, pos |-> 0]

Init ==
    /\ obj \in {"CPU", "RAM", "System", "X"}
    /\ pc = "idle"
    /\ results = <<>>
    /\ cpufile \in IF obj = "CPU" THEN CpuTexts ELSE {<<>>}
    /\ meminfo_raw \in IF obj = "RAM"
                       THEN {[data |-> t, pos |-> 0] : t \in RamTexts}
                       ELSE {NoFile}
    /\ cmd_out \in IF obj = "System" THEN PciTexts
                   ELSE IF obj = "X" THEN XTexts ELSE {<<>>}
    /\ cpus = 0 /\ infs = <<>> /\ inf_list = <<>> /\ i = 0 /\ it = 0
    /\ infs0 = <<>> /\ fill0 = <<>> /\ placed = 0
    /\ meminfos = EmptyDict
    /\ lines = <<>> /\ n = 0 /\ device_list = <<>>
    /\ xinfos = EmptyDict /\ curr_scr = 0

Next ==
    \/ CPU_info
    \/ CPU_for_i
    \/ CPU_for_inf
    \/ RAM_info
    \/ RAM_for_y
    \/ System_lspci
    \/ lspci_for_device
    \/ X_infos
    \/ infos_for_x

Spec == Init /\ [][Next]_vars

----------------------------------------------------------------------------
(* What the claims speak of, read off the source text itself *)

\* the text of the source the caller's object reads
Input ==
    IF obj = "CPU" THEN cpufile
    ELSE IF obj = "RAM" THEN meminfo_raw.data
    ELSE cmd_out

\* the calls made so far that have finished
Calls == 1..Len(results)

HasReturned(k) == "ret" \in DOMAIN results[k]

\* the positions of the text at which the sentinel 'processor<TAB>:' stands
SentinelCount(text) ==
    Cardinality({p \in 1..Len(text) : StartsAt(text, CPU_STR, p)})

\* the text before the first sep of a line, and the text after it
Before(line, sep) == SubSeq(line, 1, Find(line, sep, 1) - 1)

After(line, sep) == From(line, Find(line, sep, 1) + Len(sep))

KeyedLine(line) == Find(line, <<":", " ">>, 1) > 1

\* every line is blank or 'key: value'
WellShaped(text) ==
    \A l \in Range(str_split(text, <<"\n">>)) : l = <<>> \/ KeyedLine(l)

IsMarker(inf) == inf[1] = <<>>

Markers(pool) == SelectSeq(pool, IsMarker)

----------------------------------------------------------------------------
(* CPU.info: claims C1, C2, C9, C10 *)

\* the key and the value a line 'key: value' of /proc/cpuinfo stands for
ClaimKey(line) ==
    lstrip(lower(str_replace(Before(line, <<":", " ">>), <<"\t">>, <<>>)))

ClaimValue(line) == After(line, <<":", " ">>)

\* line j of block b, when every block has K lines and a blank line after it
BlockLine(ls, K, b, j) == ls[(b - 1) * (K + 1) + j]

\* the lines ls (the text split at newlines) are N blocks of the same K
\* distinct keys in the same order, each block followed by a blank line
IsBlocks(ls, N, K) ==
    /\ Len(ls) = N * (K + 1) + 1
    /\ ls[Len(ls)] = <<>>
    /\ \A b \in 1..N :
          /\ BlockLine(ls, K, b, K + 1) = <<>>
          /\ \A j \in 1..K :
                /\ KeyedLine(BlockLine(ls, K, b, j))
                /\ ClaimKey(BlockLine(ls, K, b, j)) = ClaimKey(ls[j])
    /\ \A j1, j2 \in 1..K : j1 # j2 => ClaimKey(ls[j1]) # ClaimKey(ls[j2])

\* the record block b stands for
BlockRecord(ls, K, b) ==
    [key \in {ClaimKey(ls[j]) : j \in 1..K} |->
        ClaimValue(BlockLine(ls, K, b,
                             CHOOSE j \in 1..K : ClaimKey(ls[j]) = key))]

\* C1: on a text of N blocks of the same K distinct keys, each followed by a
\* blank line, and with expected count N, info() returns N records, record b
\* holding exactly the keys of block b with the values they have in block b.
C1_BlocksGrouped ==
    obj = "CPU" =>
        LET ls == str_split(cpufile, <<"\n">>)
        IN  \A N \in 1..Len(ls), K \in 1..Len(ls) :
                IsBlocks(ls, N, K) /\ SentinelCount(cpufile) = N =>
                    \A c \in Calls :
                        results[c] =
                            Returned([b \in 1..N |-> BlockRecord(ls, K, b)])

\* C2: on every text whose lines are blank or 'key: value', info() returns,
\* and returns exactly as many records as the sentinel occurs in the text.
C2_ExactlyN ==
    obj = "CPU" /\ WellShaped(cpufile) =>
        \A c \in Calls :
            /\ HasReturned(c)
            /\ Len(results[c].ret) = SentinelCount(cpufile)

\* a call on a well-shaped text with two sentinels has returned two records,
\* one of them empty and one not
C2_Witness ==
    /\ obj = "CPU" /\ WellShaped(cpufile) /\ SentinelCount(cpufile) = 2
    /\ Len(results) >= 1 /\ HasReturned(1) /\ Len(results[1].ret) = 2
    /\ \E a, b \in 1..2 :
          results[1].ret[a] = EmptyDict /\ results[1].ret[b] # EmptyDict

\* where the fill that starts on pool must stop: at its first marker, or
\* past its end
FirstMarker(pool) ==
    IF \E k \in 1..Len(pool) : IsMarker(pool[k])
    THEN Min({k \in 1..Len(pool) : IsMarker(pool[k])})
    ELSE Len(pool) + 1

\* C9: when the fill of a record stops, every keyed pair that stood before
\* the first marker of the pool the fill started on (before its end, if it
\* has no marker) is in the record and gone from the pool.
C9_FillTakesAll ==
    pc = "cpu_for_i" /\ i >= 1 =>
        /\ infs = From(fill0, FirstMarker(fill0))
        /\ \A j \in 1..(FirstMarker(fill0) - 1) :
              CPU_key(fill0[j]) \in DOMAIN inf_list[i]

\* C10: the pool and the placements made add up to the pool as parsed, and
\* the markers of the pool are those of the pool as parsed, in every state.
C10_PoolAccounting ==
    /\ Len(infs) + placed = Len(infs0)
    /\ Markers(infs) = Markers(infs0)

\* a call that placed two pairs has returned, a marker still in the pool
C10_Witness ==
    /\ obj = "CPU" /\ pc = "idle" /\ Len(results) >= 1 /\ HasReturned(1)
    /\ placed >= 2
    /\ Markers(infs) # <<>>

----------------------------------------------------------------------------
(* All four parsers: claims C3, C4 *)

\* C3: the calls made on one object over an unchanged source return equal
\* results: any two calls that returned, returned the same value.
C3_Idempotent ==
    \A j, k \in Calls :
        HasReturned(j) /\ HasReturned(k) => results[j] = results[k]

\* C4: on an empty report every call returns the parser's empty structure:
\* an empty mapping from RAM.info and X.infos, an empty sequence from
\* CPU.info (whose expected count is then 0) and System.lspci.
C4_EmptyInput ==
    Input = <<>> =>
        \A c \in Calls :
            results[c] =
                Returned(IF obj \in {"RAM", "X"} THEN EmptyDict ELSE <<>>)

\* X.infos has run on an empty report and returned
C4_Witness ==
    /\ obj = "X" /\ Input = <<>> /\ pc = "idle"
    /\ Len(results) >= 1 /\ HasReturned(1)
    /\ lines = <<<<>>>> /\ n = 1

----------------------------------------------------------------------------
(* RAM.info: claim C5 *)

RECURSIVE FileLines(_)
\* the lines of a file's text, each with its newline
FileLines(text) ==
    IF text = <<>> THEN <<>>
    ELSE LET p == Find(text, <<"\n">>, 1)
         IN  IF p = 0 THEN <<text>>
             ELSE <<SubSeq(text, 1, p)>> \o FileLines(From(text, p + 1))

HasColon(line) == Find(line, <<":">>, 1) > 0

\* the key a line '<key>: <value>' stands for
MemKey(line) == lower(Before(line, <<":">>))

\* the value of the line as the claim reads it: what follows the colon,
\* trimmed, a trailing ' kB' dropped
MemTrimmed(line) ==
    LET v == rstrip(lstrip(After(line, <<":">>)))
    IN  IF Len(v) >= 3 /\ StartsAt(v, <<" ", "k", "B">>, Len(v) - 2)
        THEN SubSeq(v, 1, Len(v) - 3) ELSE v

\* an optionally signed digit string
IsSignedDigits(v) ==
    /\ v # <<>>
    /\ LET d == IF v[1] = "-" THEN Tail(v) ELSE v
       IN  d # <<>> /\ \A k \in 1..Len(d) : IsDigit(d[k])

SignedDigitsVal(v) ==
    IF v[1] = "-" THEN 0 - DigitsVal(Tail(v)) ELSE DigitsVal(v)

\* the last line of ls with the key of line j
LastWithKey(ls, j) ==
    ls[Max({k \in 1..Len(ls) : MemKey(ls[k]) = MemKey(ls[j])})]

MemText(line) ==
    LET v == After(line, <<":">>)
        w == IF HasColon(v) THEN Before(v, <<":">>) ELSE v
    IN  str_replace(w, <<" ", "k", "B">>, <<>>)

----------------------------------------------------------------------------
(* System.lspci: claim C6 *)

IsDeviceLine(l) == \E q \in PciParts : l = LineOf(q)

\* the device lines among the first p lines
DevicesUpTo(ls, p) == Cardinality({k \in 1..p : IsDeviceLine(ls[k])})

Plain(q) ==
    /\ Find(q[3], <<":", " ">>, 1) = 0
    /\ Find(<<"r", "e", "v", " ">> \o q[4], <<" ", "(">>, 1) = 0

----------------------------------------------------------------------------
(* X.infos: claims C7, C8 *)

\* the loop is about to process line x
AtLine(x) == pc = "infos_for" /\ n < Len(lines) /\ x = lines[n + 1]

\* C7: a screen-marker line processed when 'screens' exists leaves the
\* 'screens' sequence, and every field recorded in it, as it was.
C7_MarkerKeepsScreens ==
    \A x \in Range(lines) :
        AtLine(x) /\ screen_match(x) # <<>> /\ SCREENS \in DOMAIN xinfos =>
            X_body(xinfos, curr_scr, x).xinfos[SCREENS] = xinfos[SCREENS]

\* C8: an indented sub-line processed after a marker 'screen #k' raises
\* nothing, leaves 'screens' longer than k, and sets its field on entry k.
C8_SubLinePads ==
    \A x \in Range(lines) :
        AtLine(x) /\ scrdetails_match(x) # <<>> /\ SCREENS \in DOMAIN xinfos =>
            LET r == X_body(xinfos, curr_scr, x)
            IN  /\ r.exc = "none"
                /\ Len(r.xinfos[SCREENS].list) > curr_scr
                /\ scrdetails_match(x)[1] \in
                       DOMAIN r.xinfos[SCREENS].list[curr_scr + 1]

====
